---- MODULE Spec2Model ----
(***************************************************************************)
(* Model of Statistics/Tukey.py: Tukey.run, Tukey.__median and             *)
(* Tukey.__medianIdx, together with a caller that owns the list it passes  *)
(* in and keeps the result it gets back.                                   *)
(*                                                                         *)
(* Python lists are objects: the model keeps a heap of list objects and    *)
(* every list-valued name holds a reference (an index into the heap).      *)
(* An optional value is a sequence of length 0 (None) or 1.                *)
(*                                                                         *)
(* The data are integers.  IQR * 1.5 is then a multiple of one half and    *)
(* the float arithmetic of lines 95-96 is exact, so a fence is held in     *)
(* half units: the stored integer f stands for the float f / 2.            *)
(***************************************************************************)
EXTENDS Integers, Sequences, FiniteSets

\* ---- bounds -------------------------------------------------------------
MaxLen == 6
MaxVal == 2
MaxOps == 2

Values == 0..MaxVal

\* dataset of the documented example, an input like any other
KnownDataset == <<2, 3, 3, 4, 5, 6, 7, 8, 9, 10, 50>>

RECURSIVE SeqsOfLen(_)
SeqsOfLen(n) ==
  IF n = 0 THEN {<<>>}
  ELSE {Append(s, v) : s \in SeqsOfLen(n - 1), v \in Values}

Inputs == UNION {SeqsOfLen(n) : n \in 0..MaxLen} \cup {KnownDataset}

\* ---- optional values ----------------------------------------------------
None == <<>>
Some(x) == <<x>>
Val(o) == o[1]

\* ---- Python list primitives ---------------------------------------------
\* l[a:b] with 0 <= a, b <= len(l)
Slice(l, a, b) == IF b <= a THEN <<>> ELSE SubSeq(l, a + 1, b)

\* l[i] raises IndexError unless 0 <= i < len(l) (i is never negative here)
InRange(l, i) == i >= 0 /\ i < Len(l)
Index(l, i) == l[i + 1]

RECURSIVE Insert(_, _)
Insert(l, v) ==
  IF l = <<>> THEN <<v>>
  ELSE IF v < Head(l) THEN <<v>> \o l
       ELSE <<Head(l)>> \o Insert(Tail(l), v)

RECURSIVE SortAsc(_)
SortAsc(l) == IF l = <<>> THEN <<>> ELSE Insert(SortAsc(SubSeq(l, 1, Len(l) - 1)), l[Len(l)])

sort_unsorted(l) == l
sort_descending(l) == [k \in 1..Len(l) |-> SortAsc(l)[Len(l) + 1 - k]]
\* list.sort(): ascending, in place
sort(l) == SortAsc(l)

\* ---- float arithmetic in half units -------------------------------------
Float(x) == 2 * x
Times1_5(x) == 3 * x

\* ---- Tukey.__medianIdx, Tukey.__median ----------------------------------
medianIdx_lowerMedian(p) == (Len(p) - 1) \div 2
medianIdx(p) == Len(p) \div 2

median_raises(p) == ~InRange(p, medianIdx(p))
median(p) == Index(p, medianIdx(p))

\* ---- Tukey.run ----------------------------------------------------------
IsPopulated_nonNone(h, p) == p # None
IsPopulated(h, p) == p # None /\ Len(h[Val(p)]) > 0

IsSingle_upToTwo(l) == Len(l) <= 2
IsSingle(l) == Len(l) = 1

upper_list_of(l, split_idx) ==
  IF Len(l) % 2 = 0 THEN Slice(l, split_idx, Len(l))
  ELSE Slice(l, split_idx + 1, Len(l))

lower_fence_of(Q1, IQR) == Float(Q1) - Times1_5(IQR)
upper_fence_minus(Q3, IQR) == Float(Q3) - Times1_5(IQR)
upper_fence_of(Q3, IQR) == Float(Q3) + Times1_5(IQR)

IsOutlier_inclusive(elem, lower_fence, upper_fence) ==
  Float(elem) <= lower_fence \/ Float(elem) >= upper_fence
IsOutlier_lowerOnly(elem, lower_fence, upper_fence) ==
  Float(elem) < lower_fence
IsOutlier(elem, lower_fence, upper_fence) ==
  Float(elem) < lower_fence \/ Float(elem) > upper_fence

filter_dropBoundary(l, i, lower_fence, upper_fence, outliers, non_outliers) ==
  [outliers |-> SelectSeq(l, LAMBDA e : IsOutlier(e, lower_fence, upper_fence)),
   non_outliers |-> SelectSeq(l, LAMBDA e : Float(e) > lower_fence
                                            /\ Float(e) < upper_fence)]
\* the loop of lines 99-103, from element i on
RECURSIVE filter(_, _, _, _, _, _)
filter(l, i, lower_fence, upper_fence, outliers, non_outliers) ==
  IF i >= Len(l) THEN [outliers |-> outliers, non_outliers |-> non_outliers]
  ELSE IF IsOutlier(Index(l, i), lower_fence, upper_fence)
       THEN filter(l, i + 1, lower_fence, upper_fence,
                   Append(outliers, Index(l, i)), non_outliers)
       ELSE filter(l, i + 1, lower_fence, upper_fence,
                   outliers, Append(non_outliers, Index(l, i)))

NoFrame == None

\* The whole of Tukey.run on heap h with argument p (None or a reference).
\* Yields the heap afterwards, the returned value, whether an exception
\* left the function, and the locals of the full test (lines 79-96).
run(h, p) ==
  IF ~IsPopulated(h, p)
  THEN [heap |-> h, result |-> None, raised |-> FALSE, frame |-> NoFrame]
  ELSE
    LET id == Val(p) IN
    IF IsSingle(h[id])
    THEN LET h1 == Append(h, <<>>) IN
         [heap |-> h1,
          result |-> Some([outliers |-> Len(h1), non_outliers |-> id,
                           lower_fence |-> None, upper_fence |-> None]),
          raised |-> FALSE, frame |-> NoFrame]
    ELSE
      LET l == sort(h[id])
          hs == [h EXCEPT ![id] = l]
          split_idx == medianIdx(l)
          lower_list == Slice(l, 0, split_idx)
          upper_list == upper_list_of(l, split_idx)
      IN
      IF median_raises(lower_list) \/ median_raises(upper_list)
      THEN [heap |-> hs, result |-> None, raised |-> TRUE, frame |-> NoFrame]
      ELSE
        LET Q1 == median(lower_list)
            Q3 == median(upper_list)
            IQR == Q3 - Q1
            lower_fence == lower_fence_of(Q1, IQR)
            upper_fence == upper_fence_of(Q3, IQR)
            lists == filter(l, 0, lower_fence, upper_fence, <<>>, <<>>)
            h1 == hs \o <<lists.outliers, lists.non_outliers>>
        IN [heap |-> h1,
            result |-> Some([outliers |-> Len(hs) + 1,
                             non_outliers |-> Len(hs) + 2,
                             lower_fence |-> Some(lower_fence),
                             upper_fence |-> Some(upper_fence)]),
            raised |-> FALSE,
            frame |-> Some([split_idx |-> split_idx, lower_list |-> lower_list,
                            upper_list |-> upper_list, Q1 |-> Q1, Q3 |-> Q3,
                            IQR |-> IQR])]

\* ---- state --------------------------------------------------------------
VARIABLES
  heap,     \* the list objects, by reference
  p_list,   \* the caller's dataset: None or a reference
  pc,       \* "start", "returned", "raised", "mutated"
  call,     \* which call returned last: "none", "first", "again", "feedback"
  arg,      \* the argument of the last call
  pre,      \* contents of the argument list when the last call was made
  result,   \* value returned by the last call
  frame,    \* locals of the last call (quartiles and halves), if computed
  held,     \* the result of the first call, kept by the caller
  snap,     \* contents of held's two lists when the first call returned
  nops      \* caller operations after the first call

vars == <<heap, p_list, pc, call, arg, pre, result, frame, held, snap, nops>>

Contents(h, p) == IF p = None THEN <<>> ELSE h[Val(p)]

Init ==
  /\ \/ /\ heap = <<>>
        /\ p_list = None
     \/ \E l \in Inputs :
        /\ heap = <<l>>
        /\ p_list = Some(1)
  /\ pc = "start"
  /\ call = "none"
  /\ arg = None
  /\ pre = <<>>
  /\ result = None
  /\ frame = NoFrame
  /\ held = None
  /\ snap = None
  /\ nops = 0

\* one call of Tukey.run(p) by the caller
Call(p, kind) ==
  LET r == run(heap, p) IN
  /\ heap' = r.heap
  /\ result' = r.result
  /\ frame' = r.frame
  /\ pc' = IF r.raised THEN "raised" ELSE "returned"
  /\ call' = kind
  /\ arg' = p
  /\ pre' = Contents(heap, p)

\* result = Tukey.run(p_list)
Run ==
  /\ pc = "start"
  /\ Call(p_list, "first")
  /\ LET r == run(heap, p_list) IN
     /\ held' = IF r.raised THEN None ELSE r.result
     /\ snap' = IF r.raised \/ r.result = None THEN None
                ELSE Some([outliers |-> r.heap[Val(r.result).outliers],
                           non_outliers |-> r.heap[Val(r.result).non_outliers]])
  /\ UNCHANGED <<p_list, nops>>

CallerMay == pc \in {"returned", "mutated"} /\ nops < MaxOps

\* p_list.append(v)
AppendInput ==
  /\ CallerMay /\ p_list # None
  /\ Len(heap[Val(p_list)]) <= MaxLen
  /\ \E v \in Values : heap' = [heap EXCEPT ![Val(p_list)] = Append(@, v)]
  /\ pc' = "mutated" /\ nops' = nops + 1
  /\ UNCHANGED <<p_list, call, arg, pre, result, frame, held, snap>>

\* p_list[i] = v
OverwriteInput ==
  /\ CallerMay /\ p_list # None
  /\ \E i \in 1..Len(heap[Val(p_list)]), v \in Values :
       heap' = [heap EXCEPT ![Val(p_list)][i] = v]
  /\ pc' = "mutated" /\ nops' = nops + 1
  /\ UNCHANGED <<p_list, call, arg, pre, result, frame, held, snap>>

\* p_list.sort()
SortInput ==
  /\ CallerMay /\ p_list # None
  /\ heap' = [heap EXCEPT ![Val(p_list)] = sort(@)]
  /\ pc' = "mutated" /\ nops' = nops + 1
  /\ UNCHANGED <<p_list, call, arg, pre, result, frame, held, snap>>

\* a second Tukey.run(p_list) on the same list
RunAgain ==
  /\ CallerMay
  /\ Call(p_list, "again")
  /\ nops' = nops + 1
  /\ UNCHANGED <<p_list, held, snap>>

\* Tukey.run(held.non_outliers): the non-outliers fed back in
RunNonOutliers ==
  /\ CallerMay /\ held # None
  /\ Call(Some(Val(held).non_outliers), "feedback")
  /\ nops' = nops + 1
  /\ UNCHANGED <<p_list, held, snap>>

Next ==
  \/ Run
  \/ AppendInput
  \/ OverwriteInput
  \/ SortInput
  \/ RunAgain
  \/ RunNonOutliers

Spec == Init /\ [][Next]_vars

\* ---- vocabulary of the properties ---------------------------------------
Returned == pc = "returned"
Present == Returned /\ result # None
Out == heap[Val(result).outliers]
Non == heap[Val(result).non_outliers]
Lower == Val(result).lower_fence
Upper == Val(result).upper_fence
ArgList == heap[Val(arg)]

Range(s) == {s[k] : k \in 1..Len(s)}
Count(s, v) == Cardinality({k \in 1..Len(s) : s[k] = v})
NonDecreasing(s) == \A k \in 1..(Len(s) - 1) : s[k] <= s[k + 1]
SameMultiset(s, t) ==
  /\ Len(s) = Len(t)
  /\ \A v \in Range(s) \cup Range(t) : Count(s, v) = Count(t, v)

\* the k-th smallest element of s (k from 1), by rank
Kth(s, k) ==
  CHOOSE v \in Range(s) :
    /\ Cardinality({j \in 1..Len(s) : s[j] < v}) < k
    /\ k <= Cardinality({j \in 1..Len(s) : s[j] <= v})
\* elements of ranks a+1 .. b of s, ascending
Ranks(s, a, b) == [k \in 1..(b - a) |-> Kth(s, a + k)]

\* C1: for every non-empty input the two returned lists partition the input
\* as a multiset: per value the counts add up, no value is in both lists,
\* and the lengths add up to the input's length.
C1_Partition ==
  (Returned /\ arg # None /\ Len(pre) > 0) =>
    /\ result # None
    /\ \A v \in Range(pre) \cup Range(Out) \cup Range(Non) :
         Count(Out, v) + Count(Non, v) = Count(pre, v)
    /\ Range(Out) \cap Range(Non) = {}
    /\ Len(Out) + Len(Non) = Len(pre)

C1_Witness ==
  /\ Present /\ Len(pre) >= 3
  /\ Out # <<>> /\ Non # <<>>
  /\ \E v \in Range(pre) : Count(pre, v) >= 2 /\ Count(Non, v) >= 2

\* C2: for n >= 2 every non-outlier lies within the two fences, bounds
\* included, and every outlier lies strictly outside one of them.
C2_FenceCorrect ==
  (Returned /\ arg # None /\ Len(pre) >= 2) =>
    /\ result # None /\ Lower # None /\ Upper # None
    /\ \A e \in Range(Non) : Val(Lower) <= 2 * e /\ 2 * e <= Val(Upper)
    /\ \A e \in Range(Out) : 2 * e < Val(Lower) \/ 2 * e > Val(Upper)

C2_Witness ==
  /\ Present /\ Len(pre) >= 2
  /\ \E e \in Range(Out) : 2 * e > Val(Upper)
  /\ \E e \in Range(Non) : 2 * e = Val(Upper)

\* C3: for n >= 2, with s the ascending input and m = floor(n/2), the lower
\* half is s[0..m), the upper half s[m..n) for even n and s[m+1..n) for odd
\* n, each quartile is the element at floor(len/2) of its half, and the
\* fences are Q1 - 1.5*(Q3-Q1) and Q3 + 1.5*(Q3-Q1); median of [1,2,3,4] is
\* 3 and the documented dataset gives fences -6 and 18 and outliers [50].
C3_Quartiles ==
  /\ median(<<1, 2, 3, 4>>) = 3
  /\ (Returned /\ arg # None /\ Len(pre) >= 2) =>
       LET n == Len(pre)
           m == n \div 2
           lo == Ranks(pre, 0, m)
           up == IF n % 2 = 0 THEN Ranks(pre, m, n) ELSE Ranks(pre, m + 1, n)
           q1 == lo[(Len(lo) \div 2) + 1]
           q3 == up[(Len(up) \div 2) + 1]
       IN /\ result # None /\ frame # None
          /\ Val(frame).lower_list = lo
          /\ Val(frame).upper_list = up
          /\ Val(frame).Q1 = q1
          /\ Val(frame).Q3 = q3
          /\ Lower = Some(2 * q1 - 3 * (q3 - q1))
          /\ Upper = Some(2 * q3 + 3 * (q3 - q1))
  /\ (Returned /\ arg # None /\ pre = KnownDataset) =>
       /\ result # None
       /\ Lower = Some(2 * (-6))
       /\ Upper = Some(2 * 18)
       /\ Out = <<50>>

C3_Witness ==
  /\ Present /\ pre = KnownDataset
  /\ Val(frame).lower_list = <<2, 3, 3, 4, 5>>
  /\ Val(frame).upper_list = <<7, 8, 9, 10, 50>>
  /\ Out = <<50>>

C5_SingleElement ==
  /\ (Returned /\ arg # None /\ Len(pre) = 1) =>
       /\ result # None
       /\ Non = pre /\ Out = <<>>
       /\ Lower = None /\ Upper = None
  /\ Present =>
       /\ (Lower = None /\ Upper = None) <=> (Len(pre) = 1)
       /\ Len(pre) >= 2 => (Lower # None /\ Upper # None)

C5_Witness ==
  /\ Present /\ Len(pre) = 1
  /\ Non = pre /\ Lower = None /\ Upper = None

\* C6: the returned result shares nothing with the caller's list: whatever
\* the caller does to its list after the call (append, overwrite, sort, run
\* again), the two lists of the result it holds keep their contents.
C6_ResultUnshared ==
  held # None =>
    /\ heap[Val(held).outliers] = Val(snap).outliers
    /\ heap[Val(held).non_outliers] = Val(snap).non_outliers

\* C7: for n >= 2 the caller's list is, after the call, ascending and a
\* permutation of what it held before; for n = 1 it is unchanged.
C7_SortedInPlace ==
  /\ (Returned /\ arg # None /\ Len(pre) >= 2) =>
       NonDecreasing(ArgList) /\ SameMultiset(ArgList, pre)
  /\ (Returned /\ arg # None /\ Len(pre) = 1) => ArgList = pre

C7_Witness ==
  /\ Returned /\ arg # None /\ Len(pre) >= 2
  /\ ~NonDecreasing(pre)
  /\ NonDecreasing(ArgList) /\ ArgList # pre

\* C8: for every non-empty input, in any order, the returned outliers and
\* the returned non_outliers are each non-decreasing.
C8_OutputsSorted ==
  (Returned /\ arg # None /\ Len(pre) > 0) =>
    /\ result # None
    /\ NonDecreasing(Out)
    /\ NonDecreasing(Non)

C8_Witness ==
  /\ Present /\ ~NonDecreasing(pre)
  /\ Len(Out) >= 2 /\ Len(Non) >= 2
  /\ Out[1] < Out[2]

AllEqual(s) == \A j, k \in 1..Len(s) : s[j] = s[k]

====
